---- MODULE Spec2Model ----
(***************************************************************************)
(* Model of the Focus API server (src/web/focus/focusserver.py) together   *)
(* with the two collaborators its handlers and tests use: the shared       *)
(* FocusConnection (focus/focusconnect.py) and the stadspas addressing     *)
(* codec (focus/crypto.py).  Workers run request handlers concurrently     *)
(* against the one shared connection; a handler is split into steps at     *)
(* its calls on the connection, which is where other workers interleave.   *)
(***************************************************************************)
EXTENDS Integers, Sequences, FiniteSets

VARIABLES
    client,       \* FocusConnection's session handle: "built" or "none"
    req,          \* per worker: the request it is handling and how far it got
    consecFails,  \* finished requests that ended in reset()+500 since the last success
    gpass         \* the stadspas token flow: minted token and what the fetch decoded

vars == <<client, req, consecFails, gpass>>

----------------------------------------------------------------------------
(* Bounds *)

NumWorkers == 2
MaxFails == 2
MaxFieldLen == 2

Workers == 1..NumWorkers

----------------------------------------------------------------------------
(* Responses and other handler outcomes *)

NoOut == [kind |-> "none", status |-> 0, body |-> "", ctype |-> "", detail |-> ""]

Response(body, ctype, status) ==
    [kind |-> "response", status |-> status, body |-> body, ctype |-> ctype, detail |-> ""]

\* an exception leaving the handler: nothing caught it
Raised(error) ==
    [kind |-> "raise", status |-> 0, body |-> error, ctype |-> "", detail |-> ""]

\* a plain Python value returned by a method that is not a view
Returned(value) ==
    [kind |-> "value", status |-> 0, body |-> value, ctype |-> "", detail |-> ""]

\* the Response built by _no_connection_response
NoConnection == Response("Focus connectivity failed", "text/plain", 500)

parameter_error_response_500(message) ==
    [Response("Parameter error: ", "text/plain", 500) EXCEPT !.detail = message]

parameter_error_response(message) ==
    [Response("Parameter error: ", "text/plain", 422) EXCEPT !.detail = message]

HealthOK == Response("OK", "text/plain", 200)

StatusOK == Response("Connectivity to Focus OK", "text/plain", 200)

\* jsonify(aanvragen)
AanvragenOK == Response("aanvragen", "application/json", 200)

\* the dict {"status": "OK", "content": {...}} returned by combined
CombinedOK ==
    [Response("OK", "application/json", 200)
        EXCEPT !.detail = "jaaropgaven,uitkeringsspecificaties,tozodocumenten"]

\* make_response(document["contents"]) with the two headers set
DocumentOK ==
    [Response("contents", "mime_type", 200) EXCEPT !.detail = "attachment; filename=fileName"]

----------------------------------------------------------------------------
(* The collaborators' outcomes *)

\* what a call on the remote session can raise
Faults == {"timeout", "protocol", "auth"}

\* a remote operation returns its data or raises
CallOutcomes == {"ok"} \cup Faults

\* the probe answers, or raises
ProbeOutcomes == {"true", "false"} \cup Faults

\* why get_bsn_from_request raises
BsnErrors == {"missing", "malformed", "badsignature", "nobsn"}

get_bsn_from_request == {"bsn"} \cup BsnErrors

\* FocusConnection: reset() discards the handle; the next call re-establishes
\* it.  A call that succeeds leaves a built handle; a probe answering false
\* leaves the handle as it was; a call that raises on a discarded handle
\* failed either while re-establishing it or after.
ClientAfter(c, outcome) ==
    IF outcome \in {"ok", "true"} THEN {"built"}
    ELSE IF outcome = "false" THEN {c}
    ELSE IF c = "none" THEN {"none", "built"}
    ELSE {c}

\* the remote operations combined makes, in order
CombinedCalls == <<"jaaropgaven", "uitkeringsspecificaties", "EAanvragenTozo">>

----------------------------------------------------------------------------
(* Requests *)

\* op: the view running; pc: where it is; bsn: what get_bsn_from_request gave;
\* calls: calls made on the connection; fault: "none", or how a call failed
\* (the probe's "false", or what was raised); resets: reset() calls made
Idle == [op |-> "none", pc |-> "idle", bsn |-> "none", calls |-> 0,
         fault |-> "none", resets |-> 0, out |-> NoOut]

Others == <<consecFails, gpass>>

\* _no_connection_response: reset the connection, answer 500
no_connection_response_noreset(r) ==
    /\ req[r].pc = "noconn"
    /\ client' = client
    /\ req' = [req EXCEPT ![r].pc = "done", ![r].out = NoConnection]
    /\ UNCHANGED Others

no_connection_response(r) ==
    /\ req[r].pc = "noconn"
    /\ client' = "none"
    /\ req' = [req EXCEPT ![r].pc = "done", ![r].out = NoConnection,
                          ![r].resets = @ + 1]
    /\ UNCHANGED Others

\* the try/except around get_bsn_from_request that opens the three data views
extract_bsn(r, view) ==
    /\ req[r].pc = "idle"
    /\ \E b \in get_bsn_from_request :
         req' = [req EXCEPT ![r] =
                    IF b \in BsnErrors
                    THEN [Idle EXCEPT !.op = view, !.pc = "done", !.bsn = b,
                                      !.out = parameter_error_response(b)]
                    ELSE [Idle EXCEPT !.op = view, !.pc = "call", !.bsn = b]]
    /\ UNCHANGED <<client, Others>>

health(r) ==
    /\ req[r].pc = "idle"
    /\ req' = [req EXCEPT ![r] = [Idle EXCEPT !.op = "health", !.pc = "done",
                                              !.out = HealthOK]]
    /\ UNCHANGED <<client, Others>>

\* FocusServer.is_alive: the connection's answer, or its exception, as is
is_alive(r) ==
    /\ req[r].pc = "idle"
    /\ \E o \in ProbeOutcomes : \E c \in ClientAfter(client, o) :
         /\ client' = c
         /\ req' = [req EXCEPT ![r] =
                [Idle EXCEPT !.op = "is_alive", !.pc = "done", !.calls = 1,
                             !.fault = IF o = "true" THEN "none" ELSE o,
                             !.out = IF o = "true" THEN Returned("True")
                                     ELSE IF o = "false" THEN Returned("False")
                                     ELSE Raised(o)]]
    /\ UNCHANGED Others

\* a status_data that takes a probe exception for "alive"
status_data_swallow(r) ==
    \/ /\ req[r].pc = "idle"
       /\ \E o \in ProbeOutcomes : \E c \in ClientAfter(client, o) :
            /\ client' = c
            /\ req' = [req EXCEPT ![r] =
                   IF o # "false"
                   THEN [Idle EXCEPT !.op = "status_data", !.pc = "done", !.calls = 1,
                                     !.fault = IF o = "true" THEN "none" ELSE o,
                                     !.out = StatusOK]
                   ELSE [Idle EXCEPT !.op = "status_data", !.pc = "noconn",
                                     !.calls = 1, !.fault = o]]
       /\ UNCHANGED Others
    \/ /\ req[r].op = "status_data"
       /\ no_connection_response(r)

\* a status_data that answers from the handle it found, not from the probe
status_data_stale(r) ==
    \/ /\ req[r].pc = "idle"
       /\ \E o \in ProbeOutcomes : \E c \in ClientAfter(client, o) :
            /\ client' = c
            /\ req' = [req EXCEPT ![r] =
                   IF o = "true" /\ client = "built"
                   THEN [Idle EXCEPT !.op = "status_data", !.pc = "done", !.calls = 1,
                                     !.out = StatusOK]
                   ELSE [Idle EXCEPT !.op = "status_data", !.pc = "noconn",
                                     !.calls = 1,
                                     !.fault = IF o = "true" THEN "none" ELSE o]]
       /\ UNCHANGED Others
    \/ /\ req[r].op = "status_data"
       /\ no_connection_response(r)

status_data(r) ==
    \/ /\ req[r].pc = "idle"
       /\ \E o \in ProbeOutcomes : \E c \in ClientAfter(client, o) :
            /\ client' = c
            /\ req' = [req EXCEPT ![r] =
                   IF o = "true"
                   THEN [Idle EXCEPT !.op = "status_data", !.pc = "done", !.calls = 1,
                                     !.out = StatusOK]
                   ELSE [Idle EXCEPT !.op = "status_data", !.pc = "noconn",
                                     !.calls = 1, !.fault = o]]
       /\ UNCHANGED Others
    \/ /\ req[r].op = "status_data"
       /\ no_connection_response(r)

\* the remote call is outside any try: what it raises leaves the handler
aanvragen(r) ==
    \/ extract_bsn(r, "aanvragen")
    \/ /\ req[r].pc = "call"
       /\ req[r].op = "aanvragen"
       /\ \E o \in CallOutcomes : \E c \in ClientAfter(client, o) :
            /\ client' = c
            /\ req' = [req EXCEPT ![r].pc = "done", ![r].calls = @ + 1,
                                  ![r].fault = IF o = "ok" THEN "none" ELSE o,
                                  ![r].out = IF o = "ok" THEN AanvragenOK ELSE Raised(o)]
       /\ UNCHANGED Others

\* a combined that resets the connection on its way out, whatever happened
combined_reset_always(r) ==
    \/ extract_bsn(r, "combined")
    \/ /\ req[r].pc = "call"
       /\ req[r].op = "combined"
       /\ \E o \in CallOutcomes : \E c \in ClientAfter(client, o) :
            /\ client' = IF o = "ok" /\ req[r].calls + 1 = Len(CombinedCalls)
                         THEN "none" ELSE c
            /\ req' = [req EXCEPT ![r] =
                   IF o # "ok"
                   THEN [@ EXCEPT !.pc = "noconn", !.calls = @ + 1, !.fault = o]
                   ELSE IF req[r].calls + 1 = Len(CombinedCalls)
                   THEN [@ EXCEPT !.pc = "done", !.calls = @ + 1, !.resets = @ + 1,
                                  !.out = CombinedOK]
                   ELSE [@ EXCEPT !.calls = @ + 1]]
       /\ UNCHANGED Others
    \/ /\ req[r].op = "combined"
       /\ no_connection_response(r)

combined(r) ==
    \/ extract_bsn(r, "combined")
    \/ /\ req[r].pc = "call"
       /\ req[r].op = "combined"
       /\ \E o \in CallOutcomes : \E c \in ClientAfter(client, o) :
            /\ client' = c
            /\ req' = [req EXCEPT ![r] =
                   IF o # "ok"
                   THEN [@ EXCEPT !.pc = "noconn", !.calls = @ + 1, !.fault = o]
                   ELSE IF req[r].calls + 1 = Len(CombinedCalls)
                   THEN [@ EXCEPT !.pc = "done", !.calls = @ + 1, !.out = CombinedOK]
                   ELSE [@ EXCEPT !.calls = @ + 1]]
       /\ UNCHANGED Others
    \/ /\ req[r].op = "combined"
       /\ no_connection_response(r)

document(r) ==
    \/ extract_bsn(r, "document")
    \/ /\ req[r].pc = "call"
       /\ req[r].op = "document"
       /\ \E o \in CallOutcomes : \E c \in ClientAfter(client, o) :
            /\ client' = c
            /\ req' = [req EXCEPT ![r] =
                   IF o # "ok"
                   THEN [@ EXCEPT !.pc = "noconn", !.calls = @ + 1, !.fault = o]
                   ELSE [@ EXCEPT !.pc = "done", !.calls = @ + 1, !.out = DocumentOK]]
       /\ UNCHANGED Others
    \/ /\ req[r].op = "document"
       /\ no_connection_response(r)

\* the views that answer from the remote session
DataViews == {"aanvragen", "combined", "document"}

\* the request ended in reset() and the 500
EndedInReset(q) == q.out = NoConnection /\ q.resets >= 1

\* the request used the connection and answered 200
EndedInSuccess(q) == q.calls >= 1 /\ q.out.kind = "response" /\ q.out.status = 200

\* the worker hands the outcome back and is free for the next request
Finish(r) ==
    /\ req[r].pc = "done"
    /\ consecFails' = IF EndedInReset(req[r])
                      THEN (IF consecFails < MaxFails THEN consecFails + 1 ELSE MaxFails)
                      ELSE IF EndedInSuccess(req[r]) THEN 0
                      ELSE consecFails
    /\ req' = [req EXCEPT ![r] = Idle]
    /\ UNCHANGED <<client, gpass>>

----------------------------------------------------------------------------
(* The stadspas addressing codec (focus/crypto.py) and its use *)

\* the characters a field is made of, and the one that separates fields
FieldChars == {"a", "1"}

Separator == ":"

PlainAlphabet == <<"a", "1", ":">>

\* the URL-safe symbols of a token's body, and those of its authentication tag
UrlSafe == <<"A", "B", "C">>

TagSymbols == <<"t", "u", "v", "w", "x">>

Version == "g"

\* the secret keys get_key() may give
Keys == {1, 2}

Fields == UNION {[1..n -> FieldChars] : n \in 0..MaxFieldLen}

IndexIn(alphabet, ch) == CHOOSE i \in 1..Len(alphabet) : alphabet[i] = ch

RECURSIVE SumCodes(_)
SumCodes(ct) ==
    IF ct = <<>> THEN 0 ELSE IndexIn(UrlSafe, Head(ct)) + SumCodes(Tail(ct))

\* the keyed tag over the ciphertext
Mac(K, ct) == TagSymbols[((2 * K + SumCodes(ct)) % Len(TagSymbols)) + 1]

\* the keyed cipher, position by position, into the URL-safe alphabet
Encipher(plain, K) ==
    [i \in 1..Len(plain) |->
        UrlSafe[((IndexIn(PlainAlphabet, plain[i]) + K + i) % Len(UrlSafe)) + 1]]

Decipher(ct, K) ==
    [i \in 1..Len(ct) |->
        PlainAlphabet[((IndexIn(UrlSafe, ct[i]) - 1 - K - i - 1) % Len(PlainAlphabet)) + 1]]

Join(budget_code, admin_number, pas_number) ==
    budget_code \o <<Separator>> \o admin_number \o <<Separator>> \o pas_number

HasSeparator(s) == \E i \in 1..Len(s) : s[i] = Separator

FirstSeparator(s) ==
    CHOOSE i \in 1..Len(s) : s[i] = Separator /\ \A j \in 1..(i - 1) : s[j] # Separator

\* a split that drops the empty pieces
RECURSIVE SplitNonEmpty(_)
SplitNonEmpty(s) ==
    IF ~HasSeparator(s) THEN (IF s = <<>> THEN <<>> ELSE <<s>>)
    ELSE LET i == FirstSeparator(s)
             head == SubSeq(s, 1, i - 1)
         IN  (IF head = <<>> THEN <<>> ELSE <<head>>)
                \o SplitNonEmpty(SubSeq(s, i + 1, Len(s)))

\* split on the separator, empty pieces kept
RECURSIVE Split(_)
Split(s) ==
    IF ~HasSeparator(s) THEN <<s>>
    ELSE LET i == FirstSeparator(s)
         IN  <<SubSeq(s, 1, i - 1)>> \o Split(SubSeq(s, i + 1, Len(s)))

InvalidToken == [ok |-> FALSE, fields |-> <<>>]

encrypt(budget_code, admin_number, pas_number, K) ==
    LET ct == Encipher(Join(budget_code, admin_number, pas_number), K)
    IN  <<Version>> \o ct \o <<Mac(K, ct)>>

decrypt(token, K) ==
    IF Len(token) < 2 \/ token[1] # Version THEN InvalidToken
    ELSE LET ct == SubSeq(token, 2, Len(token) - 1)
             tag == token[Len(token)]
         IN  IF \E i \in 1..Len(ct) : \A j \in 1..Len(UrlSafe) : UrlSafe[j] # ct[i]
             THEN InvalidToken
             ELSE IF tag # Mac(K, ct) THEN InvalidToken
             ELSE LET parts == Split(Decipher(ct, K))
                  IN  IF Len(parts) # 3 THEN InvalidToken
                      ELSE [ok |-> TRUE, fields |-> parts]

NoGpass == [phase |-> "idle", key |-> <<<<>>, <<>>, <<>>>>, mintKey |-> 0,
            token |-> <<>>, fetchKey |-> 0, result |-> InvalidToken]

\* an authenticated party mints the transactions link of a pass and budget
MintToken ==
    /\ gpass.phase = "idle"
    /\ \E budget_code \in Fields, admin_number \in Fields, pas_number \in Fields, K \in Keys :
         gpass' = [NoGpass EXCEPT !.phase = "minted",
                                  !.key = <<budget_code, admin_number, pas_number>>,
                                  !.mintKey = K,
                                  !.token = encrypt(budget_code, admin_number, pas_number, K)]
    /\ UNCHANGED <<client, req, consecFails>>

\* GET /focus/stadspastransacties/<token>: decode the token with the server's key
stadspastransacties ==
    /\ gpass.phase \in {"minted", "fetched"}
    /\ \E K \in Keys :
         gpass' = [gpass EXCEPT !.phase = "fetched", !.fetchKey = K,
                                !.result = decrypt(gpass.token, K)]
    /\ UNCHANGED <<client, req, consecFails>>

----------------------------------------------------------------------------
(* Specifications *)

Init ==
    /\ client = "built"
    /\ req = [r \in Workers |-> Idle]
    /\ consecFails = 0
    /\ gpass = NoGpass

Next ==
    \E r \in Workers :
        \/ health(r)
        \/ is_alive(r)
        \/ status_data(r)
        \/ aanvragen(r)
        \/ combined(r)
        \/ document(r)
        \/ Finish(r)

Spec == Init /\ [][Next]_vars

NextCodec == MintToken \/ stadspastransacties

SpecCodec == Init /\ [][NextCodec]_vars

----------------------------------------------------------------------------
(* Properties *)

Done(r) == req[r].pc = "done"

\* the views that call the connection behind a try/except, and the probe view
GatewayViews == DataViews \cup {"status_data"}

IsSuccess(out) == out.kind = "response" /\ out.status = 200

\* C1: in aanvragen, combined and document, once the BSN is extracted, a call
\* on the connection that raises is caught and answered with the uniform
\* 500 'Focus connectivity failed'; the exception never leaves the handler.
C1_RemoteFaultAnswered500 ==
    \A r \in Workers :
        (Done(r) /\ req[r].op \in DataViews /\ req[r].bsn = "bsn"
            /\ req[r].fault \in Faults)
        => (req[r].out.kind # "raise" /\ req[r].out = NoConnection)

\* C2: a request whose remote call fails, whatever the fault and whichever
\* call it was, ends with the one connectivity-failure response and exactly
\* one reset(); in combined no further call follows the failed one.
C2_OneResponseOneReset ==
    \A r \in Workers :
        (req[r].op \in DataViews /\ req[r].fault \in Faults)
        => /\ req[r].calls <= Len(CombinedCalls)
           /\ Done(r) => (req[r].out = NoConnection /\ req[r].resets = 1)

\* C3: status_data answers the 200 plain-text OK exactly when the probe
\* returned true; otherwise it answers the 500 plain text, having called
\* reset() exactly once.
C3_StatusIffAlive ==
    \A r \in Workers :
        (Done(r) /\ req[r].op = "status_data")
        => /\ (req[r].out = StatusOK) <=> (req[r].fault = "none")
           /\ req[r].fault = "none" => req[r].resets = 0
           /\ req[r].fault # "none" =>
                (req[r].out = NoConnection /\ req[r].resets = 1)
           /\ req[r].out.ctype = "text/plain"

C3_Witness ==
    \E r, s \in Workers :
        /\ Done(r) /\ req[r].op = "status_data" /\ req[r].out = StatusOK
        /\ Done(s) /\ req[s].op = "status_data" /\ req[s].fault = "false"
        /\ req[s].out.status = 500 /\ req[s].resets = 1

\* C4: FocusServer.is_alive never throws: a fault of the probe is caught and
\* reported as false, and the connection is not reset.
C4_IsAliveNeverThrows ==
    \A r \in Workers :
        (Done(r) /\ req[r].op = "is_alive")
        => /\ req[r].out.kind = "value"
           /\ req[r].fault \in Faults => req[r].out = Returned("False")
           /\ req[r].resets = 0

\* C5: in aanvragen, combined and document a failed BSN extraction is answered
\* with 422, plain text, carrying the error detail; never a 500, never a
\* success, and no call on the connection is made.
C5_ExtractionFailure422 ==
    \A r \in Workers :
        (req[r].op \in DataViews /\ req[r].bsn \in BsnErrors)
        => /\ Done(r)
           /\ req[r].out.kind = "response"
           /\ req[r].out.status = 422
           /\ req[r].out.ctype = "text/plain"
           /\ req[r].out.detail = req[r].bsn
           /\ req[r].calls = 0
           /\ req[r].resets = 0

C5_Witness ==
    \E r, s \in Workers :
        /\ req[r].op = "document" /\ req[r].bsn = "badsignature"
        /\ req[r].out.status = 422
        /\ req[s].op = "aanvragen" /\ req[s].bsn = "missing"
        /\ req[s].out.status = 422

\* C6: after any number n >= 1 of consecutive requests that ended in reset()
\* and a 500, a request whose probe or remote calls all succeed is answered
\* with its success response (200) and resets nothing; and from every such
\* state an idle worker's status request can still succeed.
C6_RecoveryAfterFailures ==
    /\ \A r \in Workers :
        (consecFails >= 1 /\ Done(r) /\ req[r].op \in GatewayViews
            /\ req[r].calls >= 1 /\ req[r].fault = "none")
        => (IsSuccess(req[r].out) /\ req[r].resets = 0)
    /\ \A r \in Workers :
        (consecFails >= 1 /\ req[r].pc = "idle")
        => ENABLED (status_data(r) /\ req'[r].out = StatusOK)

C6_Witness ==
    \E r \in Workers :
        /\ consecFails >= 2
        /\ Done(r) /\ req[r].op \in GatewayViews /\ req[r].calls >= 1
        /\ IsSuccess(req[r].out)

\* C7: with requests running concurrently on the shared connection, the
\* handle is never left corrupted and every request that used the connection
\* ends in a success response or in the uniform 500, never in a crash.
C7_ConcurrentNeverCrash ==
    \A r, s \in Workers :
        (r # s /\ req[s].pc \in {"call", "noconn"}
            /\ Done(r) /\ req[r].op \in GatewayViews /\ req[r].calls >= 1)
        => /\ client \in {"built", "none"}
           /\ IsSuccess(req[r].out) \/ req[r].out = NoConnection

\* C8: decoding with K the token that encoding a composite key with K gave
\* yields exactly the three original fields, empty fields included.
C8_RoundTrip ==
    (gpass.phase = "fetched" /\ gpass.fetchKey = gpass.mintKey)
    => gpass.result = [ok |-> TRUE, fields |-> gpass.key]

C8_Witness ==
    /\ gpass.phase = "fetched" /\ gpass.fetchKey = gpass.mintKey
    /\ gpass.key[2] = <<>> /\ gpass.key[1] # <<>> /\ gpass.key[3] # <<>>
    /\ gpass.result.ok

\* C9 as stated: when the probe raises in status_data the exception is
\* swallowed and the backend is taken as alive: 200 OK, no reset().
C9_ProbeExceptionTreatedAlive ==
    \A r \in Workers :
        (Done(r) /\ req[r].op = "status_data" /\ req[r].fault \in Faults)
        => (req[r].out = StatusOK /\ req[r].resets = 0)

\* C9 as amended: when the probe raises in status_data the exception is
\* swallowed and the backend is taken as not alive: the answer is the 500
\* 'Focus connectivity failed' and reset() is called exactly once.
C9_ProbeExceptionTreatedDown ==
    \A r \in Workers :
        (req[r].op = "status_data" /\ req[r].fault \in Faults)
        => \/ req[r].pc = "noconn" /\ req[r].resets = 0
           \/ Done(r) /\ req[r].out = NoConnection /\ req[r].resets = 1

C9_Witness ==
    \E r \in Workers :
        /\ Done(r) /\ req[r].op = "status_data" /\ req[r].fault = "timeout"
        /\ req[r].out = NoConnection /\ client = "none"

\* C10 as stated: only a request in which a probe or remote call has failed
\* resets the connection or otherwise changes its state; a step of a request
\* in which nothing has failed leaves the connection as it was.
C10_OnlyFailedRequestsChangeConnection ==
    [][\A r \in Workers :
          (req'[r] # req[r] /\ req'[r].fault = "none"
              /\ req'[r].op \in GatewayViews \cup {"health"})
          => (client' = client /\ req'[r].resets = 0)]_vars

\* C10 as amended: reset() is called only in a request in which a probe or
\* remote call has already failed; a request in which nothing has failed
\* never resets the connection, and the only change it can make to it is to
\* re-establish a handle that an earlier reset() discarded; health() and a
\* request rejected with 422 make no call and leave the connection unchanged.
C10_ResetOnlyAfterFailure ==
    [][\A r \in Workers :
          req'[r] # req[r]
          => /\ req'[r].resets > req[r].resets =>
                   (req[r].fault # "none" /\ req[r].calls >= 1)
             /\ req'[r].fault = "none" =>
                   (req'[r].resets = 0 /\ client' \in {client, "built"})
             /\ (req'[r].op = "health" \/ req'[r].bsn \in BsnErrors) =>
                   (client' = client /\ req'[r].calls = 0)]_vars

C10_Witness ==
    \E r, s \in Workers :
        /\ Done(s) /\ req[s].fault # "none" /\ req[s].resets = 1
        /\ Done(r) /\ req[r].op = "combined" /\ IsSuccess(req[r].out)
        /\ req[r].resets = 0
        /\ client = "built"

====
